---- MODULE Spec2Model ----
(***************************************************************************)
(* Model of src/app.py: the generation pipeline of generate_endpoint       *)
(* (enhance_prompt, design_theme, generate_title_and_desc,                 *)
(* generate_manim_code, render_manim_video) and the JSON sanitizer         *)
(* clean_json_response.                                                    *)
(*                                                                         *)
(* Texts are sequences of one-character strings over Chars.  "a" stands    *)
(* for any character that is neither a brace, a bracket nor white space.   *)
(***************************************************************************)
EXTENDS Integers, Sequences, FiniteSets, TLC

\* ------------------------------------------------------------------ bounds
MaxTextLen == 5
MaxCodeLen == 4
NumReq == 2

\* --------------------------------------------------------------- constants
STATIC_DIR == "static"
GENERATED_CODE_FILENAME == "generated_scene.py"

\* ------------------------------------------------------------ text helpers
Chars == {"{", "}", "[", "]", " ", "a"}

RECURSIVE SeqsUpTo(_)
SeqsUpTo(n) ==
    IF n = 0 THEN {<<>>}
    ELSE LET shorter == SeqsUpTo(n - 1)
         IN  shorter \cup {Append(s, c) : s \in {t \in shorter : Len(t) = n - 1}, c \in Chars}

Texts == SeqsUpTo(MaxTextLen)

SetMin(S) == CHOOSE x \in S : \A y \in S : x <= y
SetMax(S) == CHOOSE x \in S : \A y \in S : x >= y

\* str.strip(): leading and trailing white space removed
strip(text) ==
    LET keep == {i \in 1..Len(text) : text[i] # " "}
    IN  IF keep = {} THEN <<>> ELSE SubSeq(text, SetMin(keep), SetMax(keep))

\* str.find(ch): 0-based index of the first occurrence, -1 when absent
find(text, ch) ==
    LET at == {i \in 1..Len(text) : text[i] = ch}
    IN  IF at = {} THEN -1 ELSE SetMin(at) - 1

rfind_first(text, ch) ==
    LET at == {i \in 1..Len(text) : text[i] = ch}
    IN  IF at = {} THEN -1 ELSE SetMin(at) - 1

\* str.rfind(ch): 0-based index of the last occurrence, -1 when absent
rfind(text, ch) ==
    LET at == {i \in 1..Len(text) : text[i] = ch}
    IN  IF at = {} THEN -1 ELSE SetMax(at) - 1

slice_exclusive(text, lo, hi) == SubSeq(text, lo + 1, hi - 1)

\* text[lo:hi] for 0 <= lo and 0 <= hi <= len(text)
slice(text, lo, hi) == SubSeq(text, lo + 1, hi)

min(a, b) == IF a <= b THEN a ELSE b

\* ---------------------------------------------------------- exceptions
\* An exception is its type and its message, the message as a sequence of
\* fragments (str(e) is their concatenation).
NoExc == [type |-> "None", msg |-> <<>>]
ValueErrorNoJson ==
    [type |-> "ValueError", msg |-> <<"No JSON object or array found in the response.">>]
JSONDecodeError == [type |-> "JSONDecodeError", msg |-> <<"Expecting value">>]

\* --------------------------------------------------- clean_json_response
start_index_of_brace_first(text) ==
    LET start_brace   == find(text, "{")
        start_bracket == find(text, "[")
    IN  IF start_brace # -1 THEN start_brace ELSE start_bracket

\* lines 95-104
start_index_of(text) ==
    LET start_brace   == find(text, "{")
        start_bracket == find(text, "[")
    IN  IF start_brace # -1 /\ start_bracket # -1 THEN min(start_brace, start_bracket)
        ELSE IF start_brace # -1 THEN start_brace
        ELSE start_bracket

clean_json_response_unchecked(raw) ==
    LET text        == strip(raw)
        start_index == start_index_of(text)
    IN  IF start_index = -1
        THEN [exc |-> NoExc, value |-> <<>>]
        ELSE LET end_char == IF text[start_index + 1] = "{" THEN "}" ELSE "]"
             IN  [exc |-> NoExc, value |-> slice(text, start_index, rfind(text, end_char) + 1)]

clean_json_response(raw) ==
    LET text        == strip(raw)
        start_index == start_index_of(text)
    IN  IF start_index = -1
        THEN [exc |-> ValueErrorNoJson, value |-> <<>>]
        ELSE LET end_char == IF text[start_index + 1] = "{" THEN "}" ELSE "]"
             IN  [exc |-> NoExc, value |-> slice(text, start_index, rfind(text, end_char) + 1)]

\* ------------------------------------------------------------ json.loads
\* The parser over the reduced alphabet: a value is the scalar "a", an object
\* "{" value* "}" or an array "[" value* "]"; white space between tokens is
\* skipped.  The parsed value is kept in canonical form (its tokens without
\* white space), so two texts parse to equal values iff the forms are equal.
ParseFail == [ok |-> FALSE, val |-> <<>>, next |-> 0]

SkipWs(s, i) ==
    LET rest == {j \in i..Len(s) : s[j] # " "}
    IN  IF rest = {} THEN Len(s) + 1 ELSE SetMin(rest)

RECURSIVE ParseValue(_, _), ParseItems(_, _, _, _)
ParseValue(s, i) ==
    LET j == SkipWs(s, i)
    IN  IF j > Len(s) THEN ParseFail
        ELSE IF s[j] = "a" THEN [ok |-> TRUE, val |-> <<"a">>, next |-> j + 1]
        ELSE IF s[j] = "{" THEN ParseItems(s, j + 1, "}", <<"{">>)
        ELSE IF s[j] = "[" THEN ParseItems(s, j + 1, "]", <<"[">>)
        ELSE ParseFail

ParseItems(s, i, close, acc) ==
    LET j == SkipWs(s, i)
    IN  IF j > Len(s) THEN ParseFail
        ELSE IF s[j] = close THEN [ok |-> TRUE, val |-> Append(acc, close), next |-> j + 1]
        ELSE LET v == ParseValue(s, j)
             IN  IF v.ok THEN ParseItems(s, v.next, close, acc \o v.val) ELSE ParseFail

json_loads(s) ==
    LET v == ParseValue(s, 1)
    IN  IF v.ok /\ SkipWs(s, v.next) > Len(s)
        THEN [exc |-> NoExc, value |-> v.val]
        ELSE [exc |-> JSONDecodeError, value |-> <<>>]

\* ------------------------------------------------------------------ state
VARIABLES
    json_text, json_result, json_pc,   \* one call of clean_json_response
    code_in, code_once, code_twice, code_pc,   \* the Code stage's cleanup, applied twice
    model,          \* the module-level model: "GenerativeModel" or "None"
    pc,             \* where each request's handler stands
    data,           \* request.json of each request
    locals,         \* the local variables of generate_endpoint / render_manim_video
    calls,          \* the stage calls each request has made, and how each ended
    response,       \* the response returned for each request
    script,         \* the file GENERATED_CODE_FILENAME in the working directory
    videos,         \* the files under STATIC_DIR/videos/<video_folder>/
    proc,           \* the renderer subprocess of each request
    search_dir,     \* the directory each request's render looked the artifact up in
    route,          \* the endpoint each request came to
    asked,          \* how many times each request has called model.generate_content
    console         \* the lines printed so far

json_vars == <<json_text, json_result, json_pc>>
code_vars == <<code_in, code_once, code_twice, code_pc>>
req_vars == <<pc, data, locals, calls, response, search_dir, route, asked>>
shared_vars == <<script, videos, proc, console>>
vars == <<json_text, json_result, json_pc, code_in, code_once, code_twice, code_pc, model, pc, data, locals, calls, response,
          script, videos, proc, search_dir, console, route, asked>>

Req == 1..NumReq

NoResult == [exc |-> NoExc, value |-> <<>>]

\* ---------------------------------------------------------------- inputs
Absent == "<absent>"
QualityInputs == {"fast", "good", "best", "low", Absent}

NoData == [prompt |-> FALSE, quality |-> Absent]
Datas == {NoData} \cup {[prompt |-> TRUE, quality |-> q] : q \in QualityInputs}

\* What model.generate_content(...).text can give: a text, or an exception
\* (response.text raises ValueError when the provider returned no text).
GenerationBlocked == [type |-> "ValueError", msg |-> <<"response.text: no valid Part">>]

generate_content(texts) ==
    {[exc |-> NoExc, value |-> t] : t \in texts}
        \cup {[exc |-> GenerationBlocked, value |-> <<>>]}

Descriptions == {<<"a">>}
\* prose around an object; no brace or bracket at all; an object never closed
JsonReplies == {<<"a", "{", "a", "}">>, <<"a">>, <<"{", "a">>}
\* Code texts are sequences of tokens: " " is white space, "<fence>" a line of
\* three backquotes.
SceneTokens == {"class A(Scene):"}
\* group(1) of the match of r"class (\w+)\(Scene\):" on a scene token
SceneNameOf(token) == CASE token = "class A(Scene):" -> <<"A">>
FenceTokens == {"<fence>python", "<fence>"}
CodeReplies == {<<" ", "class A(Scene):", " ">>, <<"pass">>,
                <<"<fence>python", "class A(Scene):", "<fence>">>}
Stderrs == {"undefined scene"}

\* ------------------------------------------------------------ the records
NoLocals == [description |-> <<>>, theme |-> <<>>, meta_json |-> <<>>, code |-> <<>>,
             quality |-> "", scene_name |-> <<>>, flag |-> ""]
NoResponse == [status |-> 0, error |-> <<>>, video_path |-> <<>>, code |-> <<>>, meta |-> <<>>,
               suggestions |-> <<>>, explanation |-> <<>>]
NoScript == [exists |-> FALSE, content |-> <<>>, writer |-> 0]
NoProc == [state |-> "none", returncode |-> 0, stderr |-> "", read |-> NoScript, flag |-> "",
           scene |-> <<>>, wrote |-> FALSE]

StageOrder == <<"Enhance", "Design", "TitleAndDescription", "Code", "Render">>

\* ---------------------------------------------------------------- startup
\* lines 17-29: the model is None when GOOGLE_API_KEY is not set
Init ==
    /\ json_text = <<>> /\ json_result = NoResult /\ json_pc = "returned"
    /\ code_in = <<>> /\ code_once = <<>> /\ code_twice = <<>> /\ code_pc = "twice"
    /\ model \in {"GenerativeModel", "None"}
    /\ pc = [r \in Req |-> "idle"]
    /\ data = [r \in Req |-> NoData]
    /\ locals = [r \in Req |-> NoLocals]
    /\ calls = [r \in Req |-> <<>>]
    /\ response = [r \in Req |-> NoResponse]
    /\ script = NoScript
    /\ videos = {}
    /\ proc = [r \in Req |-> NoProc]
    /\ search_dir = [r \in Req |-> <<>>]
    /\ route = [r \in Req |-> ""]
    /\ asked = [r \in Req |-> 0]
    /\ console = IF model = "None"
                 THEN {<<"FATAL: GOOGLE_API_KEY environment variable not set.">>}
                 ELSE {}

\* ------------------------------------------------------ generate_endpoint
error_body(text) == [NoResponse EXCEPT !.error = text]

\* lines 169, 191, 201: not model
model_missing_never == FALSE

model_missing == model = "None"

\* lines 117, 122, 127, 132, 193, 205: one call of model.generate_content
ask(r) == asked' = [asked EXCEPT ![r] = @ + 1]

\* lines 169-171
Start(r) ==
    /\ pc[r] = "idle"
    /\ route' = [route EXCEPT ![r] = "generate"]
    /\ IF model_missing
       THEN /\ response' = [response EXCEPT ![r] =
                    [error_body(<<"Gemini API not configured.">>) EXCEPT !.status = 503]]
            /\ pc' = [pc EXCEPT ![r] = "done"]
            /\ UNCHANGED data
       ELSE \E d \in Datas :
              IF ~d.prompt
              THEN /\ response' = [response EXCEPT ![r] =
                           [error_body(<<"Prompt is required.">>) EXCEPT !.status = 400]]
                   /\ pc' = [pc EXCEPT ![r] = "done"]
                   /\ UNCHANGED data
              ELSE /\ pc' = [pc EXCEPT ![r] = "enhance"]
                   /\ data' = [data EXCEPT ![r] = d]
                   /\ UNCHANGED response
    /\ UNCHANGED <<json_vars, code_vars, model, locals, calls, search_dir, asked, shared_vars>>

\* lines 185-187
except_response(e) ==
    [error_body(<<"An error occurred: ">> \o e.msg) EXCEPT !.status = 500]

except_print(e) == <<"An unexpected error occurred: ">> \o e.msg

\* The try/except of lines 173-187 around one call: an exception ends the
\* request with the 500 response, otherwise the handler goes on.
try_except_swallow(r, exc, next_pc, next_locals, printed) ==
    /\ pc' = [pc EXCEPT ![r] = next_pc]
    /\ locals' = [locals EXCEPT ![r] = next_locals]
    /\ console' = console \cup printed
    /\ UNCHANGED <<response, data>>

try_except(r, exc, next_pc, next_locals, printed) ==
    IF exc = NoExc
    THEN /\ pc' = [pc EXCEPT ![r] = next_pc]
         /\ locals' = [locals EXCEPT ![r] = next_locals]
         /\ console' = console \cup printed
         /\ UNCHANGED <<response, data>>
    ELSE /\ pc' = [pc EXCEPT ![r] = "done"]
         /\ locals' = [locals EXCEPT ![r] = NoLocals]
         /\ data' = [data EXCEPT ![r] = NoData]
         /\ response' = [response EXCEPT ![r] = except_response(exc)]
         /\ console' = console \cup printed \cup {except_print(exc)}

called(r, stage, raw, exc) ==
    calls' = [calls EXCEPT ![r] = Append(@, [stage |-> stage, raw |-> raw, exc |-> exc])]

\* lines 115-118, called at line 174
enhance_prompt(r) ==
    /\ pc[r] = "enhance"
    /\ \E reply \in generate_content(Descriptions) :
         /\ called(r, "Enhance", reply.value, reply.exc)
         /\ try_except(r, reply.exc, "design",
                       [locals[r] EXCEPT !.description = reply.value],
                       {<<"Step 1: Enhancing prompt...">>})
    /\ ask(r)
    /\ UNCHANGED <<json_vars, code_vars, model, search_dir, route, script, videos, proc>>

\* lines 120-123, called at line 175
design_theme(r) ==
    /\ pc[r] = "design"
    /\ \E reply \in generate_content(JsonReplies) :
         LET out == IF reply.exc # NoExc THEN reply ELSE clean_json_response(reply.value)
         IN  /\ called(r, "Design", reply.value, out.exc)
             /\ try_except(r, out.exc, "title",
                           [locals[r] EXCEPT !.theme = out.value],
                           {<<"Step 2: Designing theme...">>})
    /\ ask(r)
    /\ UNCHANGED <<json_vars, code_vars, model, search_dir, route, script, videos, proc>>

\* lines 125-128, called at line 176
generate_title_and_desc(r) ==
    /\ pc[r] = "title"
    /\ \E reply \in generate_content(JsonReplies) :
         LET out == IF reply.exc # NoExc THEN reply ELSE clean_json_response(reply.value)
         IN  /\ called(r, "TitleAndDescription", reply.value, out.exc)
             /\ try_except(r, out.exc, "code",
                           [locals[r] EXCEPT !.meta_json = out.value],
                           {<<"Step 2.5: Generating title...">>})
    /\ ask(r)
    /\ UNCHANGED <<json_vars, code_vars, model, search_dir, route, script, videos, proc>>

\* line 133: response.text.strip()
clean_code_one_space(text) ==
    LET n     == Len(text)
        first == IF n > 0 /\ text[1] = " " THEN 2 ELSE 1
        last  == IF n > 1 /\ text[n] = " " THEN n - 1 ELSE n
    IN  SubSeq(text, first, last)

clean_code(text) == strip(text)

\* lines 130-133, called at line 177
generate_manim_code(r) ==
    /\ pc[r] = "code"
    /\ \E reply \in generate_content(CodeReplies) :
         /\ called(r, "Code", reply.value, reply.exc)
         /\ try_except(r, reply.exc, "render",
                       [locals[r] EXCEPT !.code = clean_code(reply.value)],
                       {<<"Step 3: Generating Manim code...">>})
    /\ ask(r)
    /\ UNCHANGED <<json_vars, code_vars, model, search_dir, route, script, videos, proc>>


\* ----------------------------------------------------- render_manim_video
ValueErrorNoScene ==
    [type |-> "ValueError", msg |-> <<"Could not find a Scene class in the generated code.">>]
RuntimeErrorManim ==
    [type |-> "RuntimeError", msg |-> <<"Manim rendering failed. Check console for details.">>]
FileNotFoundErrorVideo ==
    [type |-> "FileNotFoundError", msg |-> <<"Could not locate the rendered video file.">>]

\* line 138: the name of the first scene class in the code, <<>> for no match
scene_match(code) ==
    LET at == {i \in 1..Len(code) : code[i] \in SceneTokens}
    IN  IF at = {} THEN <<>> ELSE SceneNameOf(code[SetMin(at)])

\* line 142 and the .get of line 143
quality_flags_get_lowest(quality) ==
    CASE quality = "fast" -> "-pql"
      [] quality = "good" -> "-pqm"
      [] quality = "best" -> "-pqh"
      [] OTHER -> "-pql"

quality_flags_get(quality) ==
    CASE quality = "fast" -> "-pql"
      [] quality = "good" -> "-pqm"
      [] quality = "best" -> "-pqh"
      [] OTHER -> "-pqh"

\* lines 152-153
res_folder_map_get(quality) ==
    CASE quality = "fast" -> "480p15"
      [] quality = "good" -> "720p30"
      [] quality = "best" -> "1080p60"
      [] OTHER -> "1080p60"

\* line 151: GENERATED_CODE_FILENAME.replace('.py', '')
video_folder == "generated_scene"

\* line 178: data.get('quality', 'best')
data_get_quality(d) == IF d.quality = Absent THEN "best" ELSE d.quality

\* line 137: the path the code is written to, and lines 143, 154-159: the path
\* of the video the renderer is asked for
script_path(r) == GENERATED_CODE_FILENAME
artifact_path(r) ==
    <<STATIC_DIR, "videos", video_folder, res_folder_map_get(locals[r].quality)>>
        \o locals[r].scene_name \o <<".mp4">>

\* lines 136-143, called at line 178: the code is written to the script file,
\* the scene class looked up and the command built
render_write(r) ==
    /\ pc[r] = "render"
    /\ LET quality == data_get_quality(data[r])
           code    == locals[r].code
           scene   == scene_match(code)
           exc     == IF scene = <<>> THEN ValueErrorNoScene ELSE NoExc
       IN  /\ script' = [exists |-> TRUE, content |-> code, writer |-> r]
           /\ called(r, "Render", code, exc)
           /\ try_except(r, exc, "spawn",
                         [locals[r] EXCEPT !.quality = quality, !.scene_name = scene,
                                           !.flag = quality_flags_get(quality)],
                         {<<"Step 4: Rendering video with quality ", quality>>})
    /\ UNCHANGED <<json_vars, code_vars, model, search_dir, route, asked, videos, proc>>

\* line 145, subprocess.run starts the renderer, which reads the script file as
\* it stands then; the renderer is one that will exit, or one that never does
proc_start(r) ==
    /\ pc[r] = "spawn"
    /\ \E state \in {"running", "hung"} :
         proc' = [proc EXCEPT ![r] = [NoProc EXCEPT !.state = state, !.read = script,
                                                   !.flag = locals[r].flag,
                                                   !.scene = locals[r].scene_name]]
    /\ pc' = [pc EXCEPT ![r] = "wait"]
    /\ UNCHANGED <<json_vars, code_vars, model, data, locals, calls, response, search_dir, route, asked,
                   script, videos, console>>

\* The renderer: the folder it writes to under each quality flag, and what it
\* can render (a script that is Python and defines the scene it was asked for).
manim_folder(flag) ==
    CASE flag = "-pql" -> "480p15"
      [] flag = "-pqm" -> "720p30"
      [] flag = "-pqh" -> "1080p60"

Renderable(content, scene) ==
    /\ \A i \in 1..Len(content) : content[i] \notin FenceTokens
    /\ \E i \in 1..Len(content) : content[i] \in SceneTokens /\ SceneNameOf(content[i]) = scene

\* The renderer exits with code 0, having written <scene>.mp4 or (a scene
\* without animation) no video file.
proc_exit_ok(r) ==
    /\ proc[r].state = "running"
    /\ Renderable(proc[r].read.content, proc[r].scene)
    /\ \E produced \in BOOLEAN :
         LET new == [folder |-> manim_folder(proc[r].flag),
                     file |-> proc[r].scene \o <<".mp4">>,
                     producer |-> r, source |-> proc[r].read.writer]
         IN  /\ proc' = [proc EXCEPT ![r].state = "exited", ![r].returncode = 0,
                                     ![r].wrote = produced]
             /\ videos' = IF produced
                          THEN {f \in videos : ~(f.folder = new.folder /\ f.file = new.file)}
                                   \cup {new}
                          ELSE videos
    /\ UNCHANGED <<json_vars, code_vars, model, req_vars, script, console>>

\* The renderer exits with a non-zero code and text on stderr.
proc_exit_error(r) ==
    /\ proc[r].state = "running"
    /\ \E stderr \in Stderrs :
         proc' = [proc EXCEPT ![r].state = "exited", ![r].returncode = 1, ![r].stderr = stderr]
    /\ UNCHANGED <<json_vars, code_vars, model, req_vars, script, videos, console>>

endswith(s, suffix) ==
    Len(s) >= Len(suffix) /\ SubSeq(s, Len(s) - Len(suffix) + 1, Len(s)) = suffix

\* sub in s
contains(s, sub) ==
    \E i \in 1..(Len(s) - Len(sub) + 1) : SubSeq(s, i, i + Len(sub) - 1) = sub

\* line 148
render_failed_with_stderr(stderr) ==
    [type |-> "RuntimeError", msg |-> <<"Manim rendering failed: ", stderr>>]

render_failed(stderr) == RuntimeErrorManim

\* lines 146-160: what the rest of render_manim_video can return or raise once
\* the renderer has exited (os.listdir gives the files in any order)
render_result(r) ==
    IF proc[r].returncode # 0
    THEN {[exc |-> render_failed(proc[r].stderr), value |-> <<>>,
           printed |-> {<<"--- MANIM ERROR ---", proc[r].stderr, "--- END MANIM ERROR ---">>}]}
    ELSE LET res_folder == res_folder_map_get(locals[r].quality)
             found == {f \in videos : /\ f.folder = res_folder
                                      /\ endswith(f.file, <<".mp4">>)
                                      /\ contains(f.file, locals[r].scene_name)}
         IN  IF found = {}
             THEN {[exc |-> FileNotFoundErrorVideo, value |-> <<>>,
                    printed |-> {<<"Manim render successful!">>}]}
             ELSE {[exc |-> NoExc,
                    value |-> <<"static/videos", video_folder, res_folder>> \o f.file,
                    printed |-> {<<"Manim render successful!">>}] : f \in found}

\* lines 146-160 and 180-187: render_manim_video returns or raises, and the
\* handler builds the response
render_return(r) ==
    /\ pc[r] = "wait"
    /\ proc[r].state = "exited"
    /\ \E out \in render_result(r) :
         LET meta == json_loads(locals[r].meta_json)
             exc  == IF out.exc # NoExc THEN out.exc ELSE meta.exc
         IN  /\ calls' = [calls EXCEPT ![r][Len(calls[r])].exc = out.exc]
             /\ IF exc # NoExc
                THEN try_except(r, exc, "done", NoLocals, out.printed)
                ELSE /\ response' = [response EXCEPT ![r] =
                             [NoResponse EXCEPT !.status = 200, !.video_path = out.value,
                                                !.code = locals[r].code, !.meta = meta.value]]
                     /\ pc' = [pc EXCEPT ![r] = "done"]
                     /\ locals' = [locals EXCEPT ![r] = NoLocals]
                     /\ data' = [data EXCEPT ![r] = NoData]
                     /\ console' = console \cup out.printed
    /\ search_dir' = IF proc[r].returncode = 0
                     THEN [search_dir EXCEPT ![r] =
                              <<STATIC_DIR, "videos", video_folder,
                                res_folder_map_get(locals[r].quality)>>]
                     ELSE search_dir
    /\ proc' = [proc EXCEPT ![r] = NoProc]
    /\ UNCHANGED <<json_vars, code_vars, model, route, asked, script, videos>>

\* ------------------------------------- suggest_prompts and explain_code
\* prose around an array; no brace or bracket at all; an array never closed
SuggestReplies == {<<"a", "[", "a", "]">>, <<"a">>, <<"[", "a">>}
Explanations == {<<"a">>}

\* lines 197 and 208: the body {'error': str(e)}
error_response(e) == [error_body(e.msg) EXCEPT !.status = 500]

not_configured == [error_body(<<"Gemini API not configured.">>) EXCEPT !.status = 503]

\* lines 189-197
suggest_prompts_endpoint(r) ==
    /\ pc[r] = "idle"
    /\ route' = [route EXCEPT ![r] = "suggest_prompts"]
    /\ pc' = [pc EXCEPT ![r] = "done"]
    /\ IF model_missing
       THEN /\ response' = [response EXCEPT ![r] = not_configured]
            /\ UNCHANGED asked
       ELSE \E reply \in generate_content(SuggestReplies) :
              LET cleaned == IF reply.exc # NoExc THEN reply
                             ELSE clean_json_response(reply.value)
                  loaded  == IF cleaned.exc # NoExc THEN cleaned
                             ELSE json_loads(cleaned.value)
              IN  /\ ask(r)
                  /\ response' = [response EXCEPT ![r] =
                          IF loaded.exc # NoExc THEN error_response(loaded.exc)
                          ELSE [NoResponse EXCEPT !.status = 200,
                                                  !.suggestions = loaded.value]]
    /\ UNCHANGED <<json_vars, code_vars, model, data, locals, calls, search_dir, shared_vars>>

\* lines 199-208
explain_code_endpoint(r) ==
    /\ pc[r] = "idle"
    /\ route' = [route EXCEPT ![r] = "explain_code"]
    /\ pc' = [pc EXCEPT ![r] = "done"]
    /\ IF model_missing
       THEN /\ response' = [response EXCEPT ![r] = not_configured]
            /\ UNCHANGED asked
       ELSE \E has_code \in BOOLEAN :
              IF ~has_code
              THEN /\ response' = [response EXCEPT ![r] =
                           [error_body(<<"Code is required.">>) EXCEPT !.status = 400]]
                   /\ UNCHANGED asked
              ELSE \E reply \in generate_content(Explanations) :
                     /\ ask(r)
                     /\ response' = [response EXCEPT ![r] =
                             IF reply.exc # NoExc THEN error_response(reply.exc)
                             ELSE [NoResponse EXCEPT !.status = 200,
                                                     !.explanation = reply.value]]
    /\ UNCHANGED <<json_vars, code_vars, model, data, locals, calls, search_dir, shared_vars>>

\* ------------------------------------------------------------ the system
Step(r) ==
    \/ Start(r)
    \/ suggest_prompts_endpoint(r)
    \/ explain_code_endpoint(r)
    \/ enhance_prompt(r)
    \/ design_theme(r)
    \/ generate_title_and_desc(r)
    \/ generate_manim_code(r)
    \/ render_write(r)
    \/ proc_start(r)
    \/ render_return(r)

Next == \E r \in Req : Step(r) \/ proc_exit_ok(r) \/ proc_exit_error(r)

Spec == Init /\ [][Next]_vars

\* Every request thread keeps running, and a renderer that is going to exit
\* does exit.
LiveSpec ==
    /\ Spec
    /\ \A r \in Req : WF_vars(Step(r)) /\ WF_vars(proc_exit_ok(r) \/ proc_exit_error(r))

\* ------------------------------------------- clean_json_response, called
InitJson ==
    /\ json_text \in Texts
    /\ json_result = NoResult
    /\ json_pc = "call"
    /\ code_in = <<>> /\ code_once = <<>> /\ code_twice = <<>> /\ code_pc = "twice"
    /\ model = "GenerativeModel"
    /\ pc = [r \in Req |-> "idle"]
    /\ data = [r \in Req |-> NoData]
    /\ locals = [r \in Req |-> NoLocals]
    /\ calls = [r \in Req |-> <<>>]
    /\ response = [r \in Req |-> NoResponse]
    /\ script = NoScript
    /\ videos = {}
    /\ proc = [r \in Req |-> NoProc]
    /\ search_dir = [r \in Req |-> <<>>]
    /\ route = [r \in Req |-> ""]
    /\ asked = [r \in Req |-> 0]
    /\ console = {}

clean_json_call ==
    /\ json_pc = "call"
    /\ json_result' = clean_json_response(json_text)
    /\ json_pc' = "returned"
    /\ UNCHANGED <<json_text, code_vars, model, req_vars, shared_vars>>

NextJson == clean_json_call

SpecJson == InitJson /\ [][NextJson]_vars

\* ------------------------------ the cleanup of generate_manim_code, called
CodeTokens == {" ", "<fence>python", "<fence>", "class A(Scene):", "pass"}

RECURSIVE CodeSeqsUpTo(_)
CodeSeqsUpTo(n) ==
    IF n = 0 THEN {<<>>}
    ELSE LET shorter == CodeSeqsUpTo(n - 1)
         IN  shorter \cup {Append(t, c) : t \in {u \in shorter : Len(u) = n - 1},
                                          c \in CodeTokens}

CodeTexts == CodeSeqsUpTo(MaxCodeLen)

InitCode ==
    /\ code_in \in CodeTexts
    /\ code_once = <<>> /\ code_twice = <<>>
    /\ code_pc = "call"
    /\ json_text = <<>> /\ json_result = NoResult /\ json_pc = "returned"
    /\ model = "GenerativeModel"
    /\ pc = [r \in Req |-> "idle"]
    /\ data = [r \in Req |-> NoData]
    /\ locals = [r \in Req |-> NoLocals]
    /\ calls = [r \in Req |-> <<>>]
    /\ response = [r \in Req |-> NoResponse]
    /\ script = NoScript
    /\ videos = {}
    /\ proc = [r \in Req |-> NoProc]
    /\ search_dir = [r \in Req |-> <<>>]
    /\ route = [r \in Req |-> ""]
    /\ asked = [r \in Req |-> 0]
    /\ console = {}

\* line 133 applied to the model's text
clean_code_call ==
    /\ code_pc = "call"
    /\ code_once' = clean_code(code_in)
    /\ code_pc' = "once"
    /\ UNCHANGED <<code_in, code_twice, json_vars, model, req_vars, shared_vars>>

\* line 133 applied to its own result
clean_code_again ==
    /\ code_pc = "once"
    /\ code_twice' = clean_code(code_once)
    /\ code_pc' = "twice"
    /\ UNCHANGED <<code_in, code_once, json_vars, model, req_vars, shared_vars>>

NextCode == clean_code_call \/ clean_code_again

SpecCode == InitCode /\ [][NextCode]_vars


\* ========================================================================
\* Properties of clean_json_response (specification SpecJson)
\* ========================================================================
HasChar(t, c) == \E i \in 1..Len(t) : t[i] = c
NoBraces(t) == ~HasChar(t, "{") /\ ~HasChar(t, "}")
Before(t, i) == SubSeq(t, 1, i - 1)
After(t, j) == SubSeq(t, j + 1, Len(t))

\* t[i..j] is a well-formed JSON object and the prose around it has no brace
ProseWithOneObject(t, i, j) ==
    /\ i <= j /\ t[i] = "{" /\ t[j] = "}"
    /\ json_loads(SubSeq(t, i, j)).exc = NoExc
    /\ NoBraces(Before(t, i)) /\ NoBraces(After(t, j))

ParsesTo(result, object) ==
    /\ result.exc = NoExc
    /\ json_loads(result.value).exc = NoExc
    /\ json_loads(result.value).value = json_loads(object).value

\* C4 as stated: for every text that is prose around exactly one well-formed
\* JSON object, the prose holding no other brace, clean_json_response returns
\* a string that parses to a value equal to the object.
C4_OneObjectParses ==
    json_pc = "returned" =>
        \A i, j \in 1..Len(json_text) :
            ProseWithOneObject(json_text, i, j)
                => ParsesTo(json_result, SubSeq(json_text, i, j))

\* C4 amended: the same, for texts whose prose before the object holds no "["
\* either.
C4_OneObjectNoBracketBeforeParses ==
    json_pc = "returned" =>
        \A i, j \in 1..Len(json_text) :
            (ProseWithOneObject(json_text, i, j) /\ ~HasChar(Before(json_text, i), "["))
                => ParsesTo(json_result, SubSeq(json_text, i, j))

C4_Witness ==
    /\ json_pc = "returned"
    /\ \E i, j \in 1..Len(json_text) :
         /\ ProseWithOneObject(json_text, i, j) /\ ~HasChar(Before(json_text, i), "[")
         /\ i > 1 /\ j < Len(json_text) /\ j > i + 1
         /\ json_result.value = SubSeq(json_text, i, j)

Opens(t) == {i \in 1..Len(t) : t[i] \in {"{", "["}}
ClosesFor(t) ==
    LET close == IF t[SetMin(Opens(t))] = "{" THEN "}" ELSE "]"
    IN  {i \in 1..Len(t) : t[i] = close}

\* C5 as stated: for every text with a "{" or a "[", the result is the
\* substring from the earliest of them to the last occurrence of the closing
\* character of the same type, inclusive.
C5_FirstOpenToLastClose ==
    (json_pc = "returned" /\ Opens(json_text) # {}) =>
        /\ ClosesFor(json_text) # {}
        /\ SetMax(ClosesFor(json_text)) > SetMin(Opens(json_text))
        /\ json_result.exc = NoExc
        /\ json_result.value =
               SubSeq(json_text, SetMin(Opens(json_text)), SetMax(ClosesFor(json_text)))

\* C5 amended: the same, for the texts in which that closing character occurs
\* after the opening one.
C5_FirstOpenToLastCloseWhenClosed ==
    (/\ json_pc = "returned" /\ Opens(json_text) # {}
     /\ \E k \in ClosesFor(json_text) : k > SetMin(Opens(json_text))) =>
        /\ json_result.exc = NoExc
        /\ json_result.value =
               SubSeq(json_text, SetMin(Opens(json_text)), SetMax(ClosesFor(json_text)))

C5_Witness ==
    /\ json_pc = "returned" /\ Opens(json_text) # {}
    /\ json_text[SetMin(Opens(json_text))] = "["
    /\ HasChar(json_text, "{")
    /\ Cardinality(ClosesFor(json_text)) = 2
    /\ SetMin(ClosesFor(json_text)) > SetMin(Opens(json_text))
    /\ Len(json_result.value) = 4

\* C6: for every text with neither "{" nor "[", clean_json_response raises the
\* ValueError "No JSON object or array found in the response." and returns
\* nothing.
C6_NoOpenRaises ==
    (json_pc = "returned" /\ Opens(json_text) = {}) =>
        json_result = [exc |-> ValueErrorNoJson, value |-> <<>>]

C6_Witness ==
    /\ json_pc = "returned" /\ Opens(json_text) = {}
    /\ HasChar(json_text, "}") /\ HasChar(json_text, "]") /\ HasChar(json_text, "a")
    /\ json_result.exc = ValueErrorNoJson

\* C15: for a text with a "{" or a "[", clean_json_response does not raise;
\* its result is empty exactly when the closing character of the type of the
\* earliest of them does not occur, or occurs last before it, and is otherwise
\* a text that begins with that opening character and ends with that closing
\* character.
C15_EmptyOrDelimited ==
    (json_pc = "returned" /\ Opens(json_text) # {}) =>
        LET start  == SetMin(Opens(json_text))
            open   == json_text[start]
            close  == IF open = "{" THEN "}" ELSE "]"
            closes == ClosesFor(json_text)
            value  == json_result.value
        IN  /\ json_result.exc = NoExc
            /\ value = <<>> <=> (closes = {} \/ SetMax(closes) < start)
            /\ value # <<>> => value[1] = open /\ value[Len(value)] = close

C15_Witness ==
    /\ json_pc = "returned"
    /\ \E i, j \in 1..Len(json_text) :
         /\ i < j /\ json_text[i] = "]" /\ json_text[j] = "["
         /\ Opens(json_text) = {j}
    /\ json_result = [exc |-> NoExc, value |-> <<>>]

\* ========================================================================
\* Properties of the pipeline (specifications Spec and LiveSpec)
\* ========================================================================
Failed(r) == \E i \in 1..Len(calls[r]) : calls[r][i].exc # NoExc
InRender(r) == pc[r] \in {"spawn", "wait"}

\* C1: the stages of a request run in the order Enhance, Design,
\* TitleAndDescription, Code, Render, each at most once; a stage that fails is
\* the last one called, and the request ends with the 500 response that reports
\* that stage's error.
C1_StagesInOrderFailFast ==
    /\ [](\A r \in Req : \A i \in 1..Len(calls[r]) :
            /\ i <= Len(StageOrder)
            /\ calls[r][i].stage = StageOrder[i]
            /\ calls[r][i].exc # NoExc =>
                  /\ i = Len(calls[r])
                  /\ pc[r] = "done"
                  /\ response[r].status = 500
                  /\ response[r].error = <<"An error occurred: ">> \o calls[r][i].exc.msg)
    /\ [][\A r \in Req : Failed(r) => calls'[r] = calls[r] /\ pc'[r] = "done"]_vars

C1_Witness ==
    \E r1, r2 \in Req :
        /\ Len(calls[r1]) = 1 /\ calls[r1][1].exc = GenerationBlocked /\ pc[r1] = "done"
        /\ Len(calls[r2]) = 5 /\ calls[r2][5].exc = RuntimeErrorManim /\ pc[r2] = "done"
        /\ script.writer = r2

\* C2 as stated: two renders running at the same time never have the same
\* script path nor the same artifact path, and no renderer reads a script
\* written by another request.
C2_RendersNeverCollide ==
    /\ \A r1, r2 \in Req :
         (r1 # r2 /\ InRender(r1) /\ InRender(r2)) =>
             /\ script_path(r1) # script_path(r2)
             /\ artifact_path(r1) # artifact_path(r2)
    /\ \A r \in Req : proc[r].state # "none" => proc[r].read.writer = r

\* No well-formed JSON object or array starts anywhere in the text.
MalformedJson(t) ==
    ~\E i, j \in 1..Len(t) :
        i <= j /\ t[i] \in {"{", "["} /\ json_loads(SubSeq(t, i, j)).exc = NoExc

\* C3 as stated: when the model's text at the Design or the TitleAndDescription
\* stage is malformed JSON, that stage fails with the ValueError of
\* clean_json_response and no later stage is called.
C3_MalformedJsonFailsStage ==
    \A r \in Req : \A i \in 1..Len(calls[r]) :
        (/\ calls[r][i].stage \in {"Design", "TitleAndDescription"}
         /\ calls[r][i].exc # GenerationBlocked
         /\ MalformedJson(calls[r][i].raw)) =>
            /\ calls[r][i].exc = ValueErrorNoJson
            /\ i = Len(calls[r])

KnownQualities == {"fast", "good", "best"}
TierFlag(q, default) ==
    CASE q = "fast" -> "-pql" [] q = "good" -> "-pqm" [] q = "best" -> "-pqh"
      [] OTHER -> default
TierFolder(q, default) ==
    CASE q = "fast" -> "480p15" [] q = "good" -> "720p30" [] q = "best" -> "1080p60"
      [] OTHER -> default
LooksUp(r) == search_dir'[r] # search_dir[r]

\* C7 as stated: the quality of the request selects the renderer flag and the
\* folder of the lookup from the three tiers, and a quality that is unknown or
\* not given selects the lowest tier for both.
C7_UnknownQualityLowestTier ==
    /\ [](\A r \in Req : InRender(r) =>
            locals[r].flag = TierFlag(data[r].quality, "-pql"))
    /\ [][\A r \in Req : LooksUp(r) =>
            search_dir'[r] = <<STATIC_DIR, "videos", video_folder,
                               TierFolder(data[r].quality, "480p15")>>]_vars

\* C7 amended: the same, but a quality that is unknown or not given selects
\* the highest tier for both.
C7_UnknownQualityHighestTier ==
    /\ [](\A r \in Req : InRender(r) =>
            locals[r].flag = TierFlag(data[r].quality, "-pqh"))
    /\ [][\A r \in Req : LooksUp(r) =>
            search_dir'[r] = <<STATIC_DIR, "videos", video_folder,
                               TierFolder(data[r].quality, "1080p60")>>]_vars

C7_Witness ==
    \E r1, r2 \in Req :
        /\ pc[r1] = "wait" /\ data[r1].quality = "low" /\ locals[r1].flag = "-pqh"
        /\ search_dir[r2] = <<STATIC_DIR, "videos", video_folder, "1080p60">>

RenderFails(r) ==
    /\ pc[r] = "wait" /\ pc'[r] = "done"
    /\ proc[r].state = "exited" /\ proc[r].returncode # 0

\* C8 as stated: when the renderer exits with a non-zero code the request ends
\* with an error response whose text contains the renderer's stderr.
C8_RenderErrorCarriesStderr ==
    [][\A r \in Req : RenderFails(r) =>
          /\ response'[r].status = 500
          /\ contains(response'[r].error, <<proc[r].stderr>>)]_vars

\* C8 amended: when the renderer exits with a non-zero code the render raises
\* RuntimeError with the fixed message, the request ends with the 500 response
\* carrying that message, and the renderer's stderr is printed to the console.
C8_RenderErrorFixedMessage ==
    [][\A r \in Req : RenderFails(r) =>
          /\ calls'[r][Len(calls'[r])].stage = "Render"
          /\ calls'[r][Len(calls'[r])].exc.type = "RuntimeError"
          /\ response'[r].status = 500
          /\ response'[r].error =
                 <<"An error occurred: ", "Manim rendering failed. Check console for details.">>
          /\ <<"--- MANIM ERROR ---", proc[r].stderr, "--- END MANIM ERROR ---">>
                 \in console']_vars

C8_Witness ==
    \E r \in Req :
        /\ pc[r] = "done" /\ Len(calls[r]) = 5
        /\ response[r].error =
               <<"An error occurred: ", "Manim rendering failed. Check console for details.">>
        /\ <<"--- MANIM ERROR ---", "undefined scene", "--- END MANIM ERROR ---">> \in console

\* C9 as stated: a render whose renderer never exits still returns to its
\* caller, so the request reaches its end.
C9_RenderAlwaysReturns ==
    \A r \in Req : (pc[r] = "wait") ~> (pc[r] = "done")

\* C10 as stated: once a request whose render succeeded, or failed with a
\* non-zero renderer exit, has ended, the script written for that render is no
\* longer on disk.
C10_ScriptRemoved ==
    \A r \in Req :
        (/\ pc[r] = "done" /\ Len(calls[r]) = 5
         /\ calls[r][5].exc \in {NoExc, RuntimeErrorManim}
         /\ response[r].status \in {200, 500}) =>
            ~script.exists

\* C11: when the API key is absent the process still answers requests, and
\* every request to generate, suggest_prompts and explain_code is answered
\* with the 503 "Gemini API not configured." without any call of the model and
\* without any render (no stage call, no script written, no renderer started).
C11_NotConfiguredRejectsAll ==
    model = "None" =>
        /\ script = NoScript /\ videos = {}
        /\ \A r \in Req :
             /\ asked[r] = 0 /\ calls[r] = <<>> /\ proc[r] = NoProc
             /\ pc[r] \in {"idle", "done"}
             /\ pc[r] = "done" =>
                   /\ response[r].status = 503
                   /\ response[r].error = <<"Gemini API not configured.">>

C11_Witness ==
    /\ model = "None"
    /\ \E r1, r2 \in Req :
         /\ route[r1] = "suggest_prompts" /\ response[r1].status = 503
         /\ route[r2] = "explain_code" /\ response[r2].status = 503

\* What the claims call stripCodeFence: a text that begins with a fence line
\* loses that line and a closing fence line at its end; any other text is kept
\* (white space around the text is not counted).
FenceStripped(text) ==
    LET t == strip(text)
    IN  IF Len(t) > 0 /\ t[1] \in FenceTokens
        THEN LET body == SubSeq(t, 2, Len(t))
             IN  strip(IF Len(body) > 0 /\ body[Len(body)] \in FenceTokens
                       THEN SubSeq(body, 1, Len(body) - 1)
                       ELSE body)
        ELSE t

\* C12 as stated: the code handed to the render step, and written to the
\* script, is the Code stage's text with its opening fence line and closing
\* fence line removed, and is that text itself when it has no opening fence.
C12_FenceStrippedBeforeRender ==
    \A r \in Req :
        Len(calls[r]) >= 5 =>
            /\ calls[r][5].raw = FenceStripped(calls[r][4].raw)
            /\ script.writer = r => script.content = FenceStripped(calls[r][4].raw)

RenderExitedOk(r) ==
    /\ pc[r] = "wait" /\ pc'[r] = "done"
    /\ proc[r].state = "exited" /\ proc[r].returncode = 0

\* C14 as stated: a render that returns a path returns the path of the file
\* its own renderer run wrote, never a file written by the renderer of another
\* request; and a render whose renderer run wrote no file raises
\* FileNotFoundError.
C14_ReturnsOwnArtifact ==
    [][\A r \in Req : RenderExitedOk(r) =>
          /\ calls'[r][5].exc = NoExc =>
                /\ proc[r].wrote
                /\ \E f \in videos :
                     /\ f.producer = r
                     /\ search_dir'[r] = <<STATIC_DIR, "videos", video_folder, f.folder>>
                     /\ contains(f.file, locals[r].scene_name)
                     /\ response'[r].status = 200 =>
                           response'[r].video_path =
                               <<"static/videos", video_folder, f.folder>> \o f.file
          /\ ~proc[r].wrote => calls'[r][5].exc = FileNotFoundErrorVideo]_vars

\* ========================================================================
\* Properties of the Code stage's cleanup (specification SpecCode)
\* ========================================================================
\* C13: the cleanup of the Code stage's text gives the same result applied
\* twice as applied once.
C13_CleanupIdempotent ==
    code_pc = "twice" => code_twice = code_once

C13_Witness ==
    /\ code_pc = "twice"
    /\ Len(code_in) = 4 /\ code_in[1] = " " /\ code_in[2] = " " /\ code_in[4] = " "
    /\ code_in[3] \in FenceTokens
    /\ code_once = <<code_in[3]>>
    /\ code_twice = code_once

====
